---- MODULE Spec2Model ----
(***************************************************************************)
(* Model of src/markdown2html.py : parse_custom_markdown, and the command  *)
(* line around it (main, convert_markdown_to_html).                        *)
(*                                                                         *)
(* A Python str is a sequence of one-character strings; an emitted tag     *)
(* ("<ul>", "<li>", ...) is one element of such a sequence.  html_output   *)
(* is the list of output lines, result the joined return value.            *)
(***************************************************************************)
EXTENDS Integers, Sequences, FiniteSets, TLC

VARIABLES md_content, lines, i, html_output, in_list, list_type,
          paragraph_lines, pc, result

\* the command line: len(sys.argv), the position in main and
\* convert_markdown_to_html, the kind of file at the input path, the output
\* file, the two streams and the exit code
VARIABLES argc, cli_pc, input_kind, input_opened, output_exists,
          output_opened, output_file, html_content, stdout, stderr, exit_code

cli_vars == <<argc, cli_pc, input_kind, input_opened, output_exists,
              output_opened, output_file, html_content, stdout, stderr,
              exit_code>>

vars == <<md_content, lines, i, html_output, in_list, list_type,
          paragraph_lines, pc, result, cli_vars>>

(* ---------------------------- bounds ----------------------------------- *)

\* longest document drawn from all character strings over Alphabet
MaxLen == 4
\* most lines of a document assembled from SampleLines
MaxLines == 4

(* ------------------------- string primitives --------------------------- *)

NL == "\n"

Alphabet == {"-", "*", "#", " ", "a", NL}

\* characters str.strip() removes
Whitespace == {" ", "\t", NL}

None == "None"

RECURSIVE AllStrings(_)
AllStrings(n) ==
    IF n = 0 THEN {<<>>}
    ELSE LET S == AllStrings(n - 1)
         IN  S \cup {Append(s, c) : s \in {t \in S : Len(t) = n - 1}, c \in Alphabet}

RECURSIVE join(_, _)
join(sep, parts) ==
    IF parts = <<>> THEN <<>>
    ELSE IF Len(parts) = 1 THEN parts[1]
    ELSE parts[1] \o sep \o join(sep, Tail(parts))

\* index of the first line break of s, 0 when there is none
RECURSIVE FirstBreak(_, _)
FirstBreak(s, k) ==
    IF k > Len(s) THEN 0
    ELSE IF s[k] = NL THEN k
    ELSE FirstBreak(s, k + 1)

\* str.splitlines(): no line for the empty string, no empty last line after
\* a final line break
RECURSIVE splitlines(_)
splitlines(s) ==
    IF s = <<>> THEN <<>>
    ELSE LET k == FirstBreak(s, 1)
         IN  IF k = 0 THEN <<s>>
             ELSE <<SubSeq(s, 1, k - 1)>> \o splitlines(SubSeq(s, k + 1, Len(s)))

RECURSIVE lstrip(_)
lstrip(s) ==
    IF s # <<>> /\ Head(s) \in Whitespace THEN lstrip(Tail(s)) ELSE s

RECURSIVE rstrip(_)
rstrip(s) ==
    IF s # <<>> /\ s[Len(s)] \in Whitespace
    THEN rstrip(SubSeq(s, 1, Len(s) - 1)) ELSE s

strip(s) == rstrip(lstrip(s))

startswith(s, p) == Len(s) >= Len(p) /\ SubSeq(s, 1, Len(p)) = p

\* stripped_line[2:].strip()
item_text(stripped_line) == strip(SubSeq(stripped_line, 3, Len(stripped_line)))

(* --------------------------- emitted lines ----------------------------- *)

\* f"<p>{' '.join(paragraph_lines)}</p>"
PTag(para) == <<"<p>">> \o join(<<" ">>, para) \o <<"</p>">>

\* f'<li>{item_text}</li>'
LiTag(text) == <<"<li>">> \o text \o <<"</li>">>

\* the two opening tags exchanged
OpenTagSwapped(kind) == IF kind = "ordered" THEN <<"<ul>">> ELSE <<"<ol>">>

OpenTag(kind) == IF kind = "ordered" THEN <<"<ol>">> ELSE <<"<ul>">>

\* the paragraph emitted without testing the buffer
FlushParagraphAlways(out, para) == Append(out, PTag(para))

\* if paragraph_lines: html_output.append(<p>...</p>)
FlushParagraph(out, para) ==
    IF para # <<>> THEN Append(out, PTag(para)) ELSE out

\* no closing tag emitted at all
CloseListNever(out, il, lt) == out

\* the two closing tags exchanged
CloseListSwapped(out, il, lt) ==
    IF il
    THEN IF lt = "ordered" THEN Append(out, <<"</ul>">>)
         ELSE IF lt = "unordered" THEN Append(out, <<"</ol>">>)
         ELSE out
    ELSE out

\* the closing tag emitted for unordered lists only
CloseListUnorderedOnly(out, il, lt) ==
    IF il /\ lt = "unordered" THEN Append(out, <<"</ul>">>) ELSE out

\* if in_list: append '</ol>' for 'ordered', '</ul>' for 'unordered'
CloseList(out, il, lt) ==
    IF il
    THEN IF lt = "ordered" THEN Append(out, <<"</ol>">>)
         ELSE IF lt = "unordered" THEN Append(out, <<"</ul>">>)
         ELSE out
    ELSE out

\* the opening tag emitted for every item
OpenListAlways(out, il, kind) == Append(out, OpenTag(kind))

\* if not in_list: html_output.append('<ol>' | '<ul>')
OpenList(out, il, kind) ==
    IF ~il THEN Append(out, OpenTag(kind)) ELSE out

\* list_type never recorded
ItemListTypeUnset(il, lt, kind) == lt

\* list_type after an item line of the given kind
ItemListType(il, lt, kind) == IF ~il THEN kind ELSE lt

\* the line buffered without its leading '#' characters
RECURSIVE DropHashes(_)
DropHashes(s) == IF s # <<>> /\ Head(s) = "#" THEN DropHashes(Tail(s)) ELSE s

BufferLineDropMarker(para, s) == Append(para, DropHashes(s))

\* the line not buffered
BufferLineDrop(para, s) == para

\* the buffer replaced by the line instead of extended
BufferLineOverwrite(para, s) == <<s>>

\* paragraph_lines.append(stripped_line)
BufferLine(para, s) == Append(para, s)

\* the open list left unclosed at the end of the document
EndFlushNoClose(out, para, il, lt) == FlushParagraph(out, para)

\* the two closing steps after the loop
EndFlush(out, para, il, lt) == CloseList(FlushParagraph(out, para), il, lt)

\* the loop stepping over a line
NextIndexSkip(k) == k + 2

\* for line in lines: the loop takes the next line
NextIndex(k) == k + 1

(* ------------------------------ inputs --------------------------------- *)

SampleLines ==
    { <<"-", " ", "a">>, <<"-", " ", "b">>, <<"*", " ", "b">>, <<>>, <<"c">>,
      <<"#", " ", "t">>, <<"#", "n">> }

RECURSIVE LineSeqs(_)
LineSeqs(n) ==
    IF n = 0 THEN {<<>>}
    ELSE LET S == LineSeqs(n - 1)
         IN  S \cup {Append(s, l) : s \in {t \in S : Len(t) = n - 1}, l \in SampleLines}

Documents == AllStrings(MaxLen) \cup {join(<<NL>>, ls) : ls \in LineSeqs(MaxLines)}

(* ------------------------------ machine -------------------------------- *)

\* no exit code yet
Running == -1

\* the function called on its own, outside a run of the command line
CliIdle ==
    /\ argc = 1
    /\ cli_pc = "none"
    /\ input_kind = "absent"
    /\ input_opened = FALSE
    /\ output_exists = FALSE
    /\ output_opened = FALSE
    /\ output_file = <<>>
    /\ html_content = <<>>
    /\ stdout = <<>>
    /\ stderr = <<>>
    /\ exit_code = Running

Init ==
    /\ md_content \in Documents
    /\ lines = <<>>
    /\ i = 0
    /\ html_output = <<>>
    /\ in_list = FALSE
    /\ list_type = None
    /\ paragraph_lines = <<>>
    /\ pc = "start"
    /\ result = <<>>
    /\ CliIdle

\* lines = md_content.splitlines(), and the locals' initial values
Start ==
    /\ pc = "start"
    /\ lines' = splitlines(md_content)
    /\ i' = 1
    /\ pc' = "scan"
    /\ UNCHANGED <<md_content, html_output, in_list, list_type,
                   paragraph_lines, result, cli_vars>>

Scanning == pc = "scan" /\ i <= Len(lines)

stripped_line == strip(lines[i])

\* the list opened before the buffered paragraph is flushed
ScanItemListFirst(kind) ==
    /\ html_output' = Append(FlushParagraph(OpenList(html_output, in_list, kind),
                                            paragraph_lines),
                             LiTag(item_text(stripped_line)))
    /\ paragraph_lines' = <<>>
    /\ list_type' = ItemListType(in_list, list_type, kind)
    /\ in_list' = TRUE
    /\ i' = NextIndex(i)
    /\ UNCHANGED <<md_content, lines, pc, result, cli_vars>>

ScanItem(kind) ==
    /\ html_output' = Append(OpenList(FlushParagraph(html_output, paragraph_lines),
                                      in_list, kind),
                             LiTag(item_text(stripped_line)))
    /\ paragraph_lines' = <<>>
    /\ list_type' = ItemListType(in_list, list_type, kind)
    /\ in_list' = TRUE
    /\ i' = NextIndex(i)
    /\ UNCHANGED <<md_content, lines, pc, result, cli_vars>>

ScanOrdered ==
    /\ Scanning
    /\ startswith(stripped_line, <<"*", " ">>)
    /\ ScanItem("ordered")

ScanUnordered ==
    /\ Scanning
    /\ ~startswith(stripped_line, <<"*", " ">>)
    /\ startswith(stripped_line, <<"-", " ">>)
    /\ ScanItem("unordered")

ScanBlank ==
    /\ Scanning
    /\ ~startswith(stripped_line, <<"*", " ">>)
    /\ ~startswith(stripped_line, <<"-", " ">>)
    /\ stripped_line = <<>>
    /\ html_output' = CloseList(FlushParagraph(html_output, paragraph_lines),
                                in_list, list_type)
    /\ paragraph_lines' = <<>>
    /\ in_list' = FALSE
    /\ list_type' = None
    /\ i' = NextIndex(i)
    /\ UNCHANGED <<md_content, lines, pc, result, cli_vars>>

ScanText ==
    /\ Scanning
    /\ ~startswith(stripped_line, <<"*", " ">>)
    /\ ~startswith(stripped_line, <<"-", " ">>)
    /\ stripped_line # <<>>
    /\ html_output' = CloseList(html_output, in_list, list_type)
    /\ in_list' = FALSE
    /\ list_type' = None
    /\ paragraph_lines' = BufferLine(paragraph_lines, stripped_line)
    /\ i' = NextIndex(i)
    /\ UNCHANGED <<md_content, lines, pc, result, cli_vars>>

\* end of the loop: flush the paragraph, close the list, join the lines
Return ==
    /\ pc = "scan"
    /\ i > Len(lines)
    /\ html_output' = EndFlush(html_output, paragraph_lines, in_list, list_type)
    /\ result' = join(<<NL>>, html_output')
    /\ pc' = "done"
    /\ UNCHANGED <<md_content, lines, i, in_list, list_type, paragraph_lines,
                   cli_vars>>

Next == Start \/ ScanOrdered \/ ScanUnordered \/ ScanBlank \/ ScanText \/ Return

Spec == Init /\ [][Next]_vars

FairSpec == Spec /\ WF_vars(Next)

TypeOK ==
    /\ pc \in {"idle", "start", "scan", "done"}
    /\ in_list \in BOOLEAN
    /\ list_type \in {None, "ordered", "unordered"}

(* --------------------------- command line ------------------------------ *)

\* most entries of sys.argv
MaxArgc == 4
\* most lines of the input file
MaxFileLines == 2

\* tab_length of markdown.markdown
TabLength == 4

Spaces(n) == [k \in 1..n |-> " "]

\* str.expandtabs as the library applies it to the whole source
RECURSIVE expandtabs(_, _)
expandtabs(s, col) ==
    IF s = <<>> THEN <<>>
    ELSE IF Head(s) = "\t"
         THEN Spaces(TabLength - (col % TabLength))
                \o expandtabs(Tail(s), col + TabLength - (col % TabLength))
    ELSE IF Head(s) = NL THEN <<NL>> \o expandtabs(Tail(s), 0)
    ELSE <<Head(s)>> \o expandtabs(Tail(s), col + Len(Head(s)))

\* markdown.markdown(md_content) on the parser's output: the lines are raw
\* HTML blocks, which the library passes through after its whitespace
\* normalisation (tabs expanded, result stripped)
markdown(s) == strip(expandtabs(s, 0))

\* any argument count but two
ArgcOkAtLeast(n) == n >= 3

\* len(sys.argv) != 3 is the usage error
ArgcOk(n) == n = 3

FileLines ==
    { <<"-", " ", "a">>, <<"*", " ", "b">>, <<>>, <<"c">>,
      <<"c", "\t", "d">>, <<"#", " ", "t">> }

RECURSIVE FileLineSeqs(_)
FileLineSeqs(n) ==
    IF n = 0 THEN {<<>>}
    ELSE LET S == FileLineSeqs(n - 1)
         IN  S \cup {Append(s, l) : s \in {t \in S : Len(t) = n - 1}, l \in FileLines}

FileContents == {join(<<NL>>, ls) : ls \in FileLineSeqs(MaxFileLines)}

\* what can stand at the input path: nothing, a regular file, a directory,
\* or a readable file that is not regular (device, pipe)
InputKinds == {"absent", "regular", "directory", "special"}

parser_vars == <<md_content, lines, i, html_output, in_list, list_type,
                 paragraph_lines, pc, result>>

CliInit ==
    /\ md_content = <<>>
    /\ lines = <<>>
    /\ i = 0
    /\ html_output = <<>>
    /\ in_list = FALSE
    /\ list_type = None
    /\ paragraph_lines = <<>>
    /\ pc = "idle"
    /\ result = <<>>
    /\ argc \in 1..MaxArgc
    /\ cli_pc = "main"
    /\ input_kind \in InputKinds
    /\ input_opened = FALSE
    /\ output_exists \in BOOLEAN
    /\ output_opened = FALSE
    /\ output_file = <<>>
    /\ html_content = <<>>
    /\ stdout = <<>>
    /\ stderr = <<>>
    /\ exit_code = Running

\* main: wrong argument count, print the usage string, sys.exit(1)
MainUsage ==
    /\ cli_pc = "main"
    /\ ~ArgcOk(argc)
    /\ stdout' = Append(stdout, "usage")
    /\ exit_code' = 1
    /\ cli_pc' = "exit"
    /\ UNCHANGED <<parser_vars, argc, input_kind, input_opened, output_exists,
                   output_opened, output_file, html_content, stderr>>

\* main: call convert_markdown_to_html(sys.argv[1], sys.argv[2])
MainCall ==
    /\ cli_pc = "main"
    /\ ArgcOk(argc)
    /\ cli_pc' = "convert"
    /\ UNCHANGED <<parser_vars, argc, input_kind, input_opened, output_exists,
                   output_opened, output_file, html_content, stdout, stderr,
                   exit_code>>

\* if not os.path.exists(input_file): print, sys.exit(1)
InputMissing ==
    /\ cli_pc = "convert"
    /\ input_kind = "absent"
    /\ stdout' = Append(stdout, "missing")
    /\ exit_code' = 1
    /\ cli_pc' = "exit"
    /\ UNCHANGED <<parser_vars, argc, input_kind, input_opened, output_exists,
                   output_opened, output_file, html_content, stderr>>

\* open(input_file) or read() raises: a directory always, any other file
\* when permissions or decoding fail
ReadFails ==
    /\ cli_pc = "convert"
    /\ input_kind \in {"regular", "directory", "special"}
    /\ input_opened' = (input_kind # "directory")
    /\ cli_pc' = "except"
    /\ UNCHANGED <<parser_vars, argc, input_kind, output_exists, output_opened,
                   output_file, html_content, stdout, stderr, exit_code>>

\* md_content = md_file.read(), then the call of parse_custom_markdown
ReadOk ==
    /\ cli_pc = "convert"
    /\ input_kind \in {"regular", "special"}
    /\ input_opened' = TRUE
    /\ md_content' \in FileContents
    /\ pc' = "start"
    /\ cli_pc' = "parse"
    /\ UNCHANGED <<lines, i, html_output, in_list, list_type, paragraph_lines,
                   result, argc, input_kind, output_exists, output_opened,
                   output_file, html_content, stdout, stderr, exit_code>>

\* html_content = markdown.markdown(md_content), md_content being the
\* parser's return value
Markdown ==
    /\ cli_pc = "parse"
    /\ pc = "done"
    /\ html_content' = markdown(result)
    /\ cli_pc' = "write"
    /\ UNCHANGED <<parser_vars, argc, input_kind, input_opened, output_exists,
                   output_opened, output_file, stdout, stderr, exit_code>>

\* the parser's own string written instead of html_content
WriteOkUnconverted ==
    /\ cli_pc = "write"
    /\ output_opened' = TRUE
    /\ output_exists' = TRUE
    /\ output_file' = result
    /\ cli_pc' = "print"
    /\ UNCHANGED <<parser_vars, argc, input_kind, input_opened, html_content,
                   stdout, stderr, exit_code>>

\* open(output_file, 'w') and html_file.write(html_content)
WriteOk ==
    /\ cli_pc = "write"
    /\ output_opened' = TRUE
    /\ output_exists' = TRUE
    /\ output_file' = html_content
    /\ cli_pc' = "print"
    /\ UNCHANGED <<parser_vars, argc, input_kind, input_opened, html_content,
                   stdout, stderr, exit_code>>

\* the open for writing raises (nothing touched), or the write raises after
\* the file was created or truncated
WriteFails ==
    /\ cli_pc = "write"
    /\ \E opened \in BOOLEAN :
          /\ output_opened' = opened
          /\ output_exists' = (output_exists \/ opened)
    /\ output_file' = <<>>
    /\ cli_pc' = "except"
    /\ UNCHANGED <<parser_vars, argc, input_kind, input_opened, html_content,
                   stdout, stderr, exit_code>>

\* print("Successfully converted ..."), and the interpreter ends with 0
PrintSuccess ==
    /\ cli_pc = "print"
    /\ stdout' = Append(stdout, "success")
    /\ exit_code' = 0
    /\ cli_pc' = "exit"
    /\ UNCHANGED <<parser_vars, argc, input_kind, input_opened, output_exists,
                   output_opened, output_file, html_content, stderr>>

\* except Exception as e: print, sys.exit(1)
Except ==
    /\ cli_pc = "except"
    /\ stdout' = Append(stdout, "error")
    /\ exit_code' = 1
    /\ cli_pc' = "exit"
    /\ UNCHANGED <<parser_vars, argc, input_kind, input_opened, output_exists,
                   output_opened, output_file, html_content, stderr>>

CliNext ==
    \/ MainUsage \/ MainCall \/ InputMissing \/ ReadFails \/ ReadOk
    \/ Start \/ ScanOrdered \/ ScanUnordered \/ ScanBlank \/ ScanText \/ Return
    \/ Markdown \/ WriteOk \/ WriteFails \/ PrintSuccess \/ Except

CliSpec == CliInit /\ [][CliNext]_vars

(* ----------------- vocabulary of the specification --------------------- *)

\* number of leading '#' characters of s
RECURSIVE HashRun(_)
HashRun(s) == IF s # <<>> /\ Head(s) = "#" THEN 1 + HashRun(Tail(s)) ELSE 0

\* rule 1 of the specification: one or more '#', a space, then text
IsHeading(s) == HashRun(s) >= 1 /\ Len(s) > HashRun(s) /\ s[HashRun(s) + 1] = " "

HeadingText(s) == SubSeq(s, HashRun(s) + 2, Len(s))

HeadingLine(s) ==
    <<"<h" \o ToString(HashRun(s)) \o ">">> \o HeadingText(s)
        \o <<"</h" \o ToString(HashRun(s)) \o ">">>

\* rules 2 and 3: the list kind a stripped line's marker stands for
MarkerKind(s) ==
    IF startswith(s, <<"-", " ">>) THEN "unordered"
    ELSE IF startswith(s, <<"*", " ">>) THEN "ordered"
    ELSE None

OtherKind(kind) == IF kind = "ordered" THEN "unordered" ELSE "ordered"

OpeningLine(kind) == IF kind = "unordered" THEN <<"<ul>">> ELSE <<"<ol>">>

ClosingLine(kind) == IF kind = "unordered" THEN <<"</ul>">> ELSE <<"</ol>">>

ItemLine(s) == <<"<li>">> \o strip(SubSeq(s, 3, Len(s))) \o <<"</li>">>

ParagraphLine(para) == <<"<p>">> \o join(<<" ">>, para) \o <<"</p>">>

Last(s) == s[Len(s)]

\* the line the scan has just handled
Scanned == pc = "scan" /\ i > 1

prev_stripped == strip(lines[i - 1])

CountOf(out, tags) == Cardinality({k \in DOMAIN out : out[k] \in tags})

ListOpens == CountOf(html_output, {<<"<ul>">>, <<"<ol>">>})

ListCloses == CountOf(html_output, {<<"</ul>">>, <<"</ol>">>})

(* ------------------------------ claims --------------------------------- *)

\* C1 (as stated): a list item of kind K scanned while a list of the other
\* kind is open emits the other kind's closing tag, then K's opening tag,
\* then the item's <li>, and the open list is of kind K afterwards.
C1_KindSwitchClosesThenOpens ==
    [][ (Scanning /\ in_list /\ MarkerKind(stripped_line) # None
            /\ list_type = OtherKind(MarkerKind(stripped_line)))
        => /\ html_output' = html_output
                \o <<ClosingLine(list_type), OpeningLine(MarkerKind(stripped_line)),
                     ItemLine(stripped_line)>>
           /\ list_type' = MarkerKind(stripped_line) ]_vars

\* C2 (as stated): scanning a heading line ('#'s, space, text) emits the
\* output line <hN>text</hN> at that step.
C2_HeadingRendered ==
    [][ (Scanning /\ IsHeading(stripped_line))
        => /\ Len(html_output') > Len(html_output)
           /\ Last(html_output') = HeadingLine(stripped_line) ]_vars

\* C3 (as stated): after a heading line has been scanned the paragraph
\* buffer is empty and no list is open.
C3_HeadingLeavesNoParagraph ==
    (Scanned /\ IsHeading(prev_stripped))
        => (paragraph_lines = <<>> /\ ~in_list)

\* C4: when the parser returns, an open list has had its closing tag emitted
\* and a non-empty paragraph buffer its <p> element, and every list opening
\* tag of the output is followed by the closing tag of its kind.
C4_EndOfInputFlush ==
    pc = "done" =>
        /\ in_list => Last(html_output) = ClosingLine(list_type)
        /\ paragraph_lines # <<>> => Last(html_output) = ParagraphLine(paragraph_lines)
        /\ \A k \in DOMAIN html_output : \A kind \in {"ordered", "unordered"} :
              html_output[k] = OpeningLine(kind)
                  => \E j \in (k + 1)..Len(html_output) :
                        html_output[j] = ClosingLine(kind)
        /\ ListOpens = ListCloses

\* C4 witness: the input ends inside a list, without a final blank line, and
\* the returned output ends with that list's closing tag.
C4_Witness ==
    /\ pc = "done"
    /\ in_list
    /\ Last(md_content) # NL
    /\ MarkerKind(strip(Last(lines))) # None
    /\ Last(html_output) = ClosingLine(list_type)

ListThenText ==
    <<"-", " ", "a", NL, "-", " ", "b", NL, NL, "c">>

\* C5: scanning a Blank line emits the buffered paragraph (if any) as one
\* <p> element and the closing tag of the open list (if any), and leaves no
\* open list and an empty buffer; '- a', '- a', '', 'a' gives <ul>, two
\* items, </ul> and then <p>a</p>.
C5_BlankClosesBlocks ==
    /\ [][ (Scanning /\ stripped_line = <<>>)
           => /\ html_output' = html_output
                   \o (IF paragraph_lines # <<>>
                       THEN <<ParagraphLine(paragraph_lines)>> ELSE <<>>)
                   \o (IF in_list THEN <<ClosingLine(list_type)>> ELSE <<>>)
              /\ ~in_list'
              /\ list_type' = None
              /\ paragraph_lines' = <<>> ]_vars
    /\ [](pc = "done" /\ md_content = ListThenText
            => html_output = << <<"<ul>">>, <<"<li>", "a", "</li>">>,
                                <<"<li>", "b", "</li>">>, <<"</ul>">>,
                                <<"<p>", "c", "</p>">> >>)

\* C5 witness: a blank line was scanned while a list was open, the closing
\* tag is the last output line and a later text line starts a paragraph.
C5_Witness ==
    /\ pc = "done"
    /\ Len(lines) = 4
    /\ MarkerKind(strip(lines[2])) = "unordered"
    /\ strip(lines[3]) = <<>>
    /\ html_output[4] = <<"</ul>">>
    /\ html_output[5] = <<"<p>">> \o strip(lines[4]) \o <<"</p>">>

\* a line the specification classifies as PlainText
IsPlainText(l) ==
    /\ strip(l) # <<>>
    /\ ~IsHeading(strip(l))
    /\ MarkerKind(strip(l)) = None

AllPlainText == lines # <<>> /\ \A k \in DOMAIN lines : IsPlainText(lines[k])

\* C6: a non-empty document of PlainText lines only (no heading, no list
\* marker, no blank line) is returned as exactly one paragraph: <p>, the
\* stripped lines joined by single spaces in input order, </p>.
C6_PassthroughParagraph ==
    (pc = "done" /\ md_content # <<>> /\ AllPlainText)
        => result = <<"<p>">>
                \o join(<<" ">>, [k \in DOMAIN lines |-> strip(lines[k])])
                \o <<"</p>">>

\* C6 witness: a returned document of several PlainText lines, one of them
\* with surrounding whitespace.
C6_Witness ==
    /\ pc = "done"
    /\ AllPlainText
    /\ Len(lines) >= 2
    /\ \E k \in DOMAIN lines : strip(lines[k]) # lines[k]
    /\ Len(html_output) = 1

\* C7: with no list open, a '- ' line emits <ul> and a '* ' line emits <ol>,
\* each followed by <li>text</li>, text being the stripped remainder after
\* the two-character marker.
C7_MarkerMapping ==
    [][ (Scanning /\ ~in_list /\ MarkerKind(stripped_line) # None)
        => LET opening == IF startswith(stripped_line, <<"-", " ">>)
                          THEN <<"<ul>">> ELSE <<"<ol>">>
               n == Len(html_output')
           IN  /\ n >= Len(html_output) + 2
               /\ html_output'[n - 1] = opening
               /\ html_output'[n] = ItemLine(stripped_line)
               /\ SubSeq(html_output', 1, n - 2)
                    = html_output \o (IF paragraph_lines # <<>>
                                      THEN <<ParagraphLine(paragraph_lines)>>
                                      ELSE <<>>) ]_vars

\* C7 witness: a '* ' line has just opened an <ol> whose item text lost its
\* surrounding whitespace.
C7_Witness ==
    /\ Scanned
    /\ startswith(prev_stripped, <<"*", " ">>)
    /\ Len(html_output) >= 2
    /\ html_output[Len(html_output) - 1] = <<"<ol>">>
    /\ Last(html_output) = <<"<li>", "a", "</li>">>
    /\ Len(prev_stripped) > 3

\* C8 (as stated): in every reachable state the list opening tags emitted
\* exceed the closing tags by 0 or 1, and by 1 exactly when in_list holds.
C8_OneOpenListAlways ==
    /\ ListOpens - ListCloses \in {0, 1}
    /\ (ListOpens - ListCloses = 1) <=> in_list

\* C8 (amended): the opening tags exceed the closing tags by 0 or 1 in
\* every reachable state; until the function returns the excess is 1
\* exactly when in_list holds, and at return it is 0.
C8_OneOpenListDuringScan ==
    /\ ListOpens - ListCloses \in {0, 1}
    /\ pc # "done" => ((ListOpens - ListCloses = 1) <=> in_list)
    /\ pc = "done" => ListOpens = ListCloses

\* C8 witness: a second list is open during the scan, the first one closed.
C8_Witness ==
    /\ Scanned
    /\ in_list
    /\ ListOpens = 2
    /\ ListCloses = 1

\* C9: the parser terminates on every input, having taken each line
\* exactly once, and never leaves its control states.
C9_Totality ==
    /\ <>(pc = "done")
    /\ [][Scanning => i' = i + 1]_vars
    /\ [](pc = "done" => i = Len(lines) + 1)
    /\ [](pc \in {"start", "scan", "done"})

\* C9 witness: the parser has returned on a whitespace-only input of
\* several lines.
C9_Witness ==
    /\ pc = "done"
    /\ Len(lines) >= 2
    /\ \A k \in DOMAIN md_content : md_content[k] \in Whitespace
    /\ i = Len(lines) + 1

\* C10: the empty string is returned as the empty string, no output line
\* being emitted.
C10_EmptyInput ==
    (pc = "done" /\ md_content = <<>>) => (result = <<>> /\ html_output = <<>>)

\* C10 witness: the parser has returned on the empty string.
C10_Witness ==
    /\ pc = "done"
    /\ md_content = <<>>
    /\ lines = <<>>
    /\ result = <<>>

\* a stripped line that begins with '#' without matching rule 1
IsMalformedHeading(s) == s # <<>> /\ Head(s) = "#" /\ ~IsHeading(s)

\* C11: a line of '#' characters not followed by a space is handled as
\* PlainText: it is appended to the paragraph buffer, nothing but the
\* closing tag of an open list is emitted at that step, and at return it
\* stands inside a <p> element.
C11_MalformedHeadingIsText ==
    /\ [][ (Scanning /\ IsMalformedHeading(stripped_line))
           => /\ paragraph_lines' = Append(paragraph_lines, stripped_line)
              /\ html_output' = html_output
                   \o (IF in_list THEN <<ClosingLine(list_type)>> ELSE <<>>) ]_vars
    /\ [](pc = "done" /\ lines # <<>> /\ IsMalformedHeading(strip(Last(lines)))
            => /\ Last(paragraph_lines) = strip(Last(lines))
               /\ Last(html_output) = ParagraphLine(paragraph_lines))

\* C11 witness: the parser has returned a paragraph that consists of a
\* '#...' line without the space.
C11_Witness ==
    /\ pc = "done"
    /\ \E k \in DOMAIN lines :
          /\ IsMalformedHeading(strip(lines[k]))
          /\ \E j \in DOMAIN html_output :
                html_output[j] = ParagraphLine(<<strip(lines[k])>>)

IsLiLine(l) == Head(l) = "<li>"

IsPLine(l) == Head(l) = "<p>"

\* list opening tags minus list closing tags among the first k output lines
OpenDepth(out, k) ==
    CountOf(SubSeq(out, 1, k), {<<"<ul>">>, <<"<ol>">>})
        - CountOf(SubSeq(out, 1, k), {<<"</ul>">>, <<"</ol>">>})

\* C16: a PlainText line scanned while a list is open emits that list's
\* closing tag at that step and only buffers the text; no <p> element of
\* the output lies between a list's opening and closing tags.
C16_TextClosesList ==
    /\ [][ (Scanning /\ in_list /\ IsPlainText(lines[i]))
           => /\ html_output' = Append(html_output, ClosingLine(list_type))
              /\ paragraph_lines' = Append(paragraph_lines, stripped_line)
              /\ ~in_list' ]_vars
    /\ [](\A k \in DOMAIN html_output :
            IsPLine(html_output[k]) => OpenDepth(html_output, k) = 0)

\* C16 witness: a text line has just followed a list item; the list's
\* closing tag is the last output line and the text is only buffered.
C16_Witness ==
    /\ Scanned
    /\ i > 2
    /\ MarkerKind(strip(lines[i - 2])) # None
    /\ IsPlainText(lines[i - 1])
    /\ Last(html_output) \in {<<"</ul>">>, <<"</ol>">>}
    /\ paragraph_lines = <<prev_stripped>>

\* C17: a list item scanned while the paragraph buffer is non-empty emits
\* the buffered lines as one <p> element, then the list opening tag, then
\* the <li>, and clears the buffer.
C17_ItemFlushesParagraph ==
    [][ (Scanning /\ MarkerKind(stripped_line) # None /\ paragraph_lines # <<>>)
        => /\ html_output' = html_output
                \o <<ParagraphLine(paragraph_lines),
                     OpeningLine(MarkerKind(stripped_line)),
                     ItemLine(stripped_line)>>
           /\ paragraph_lines' = <<>> ]_vars

\* C17 witness: an item has just followed two buffered text lines; the
\* output ends with their <p> element, the opening tag and the <li>.
C17_Witness ==
    /\ Scanned
    /\ i > 3
    /\ MarkerKind(prev_stripped) # None
    /\ Len(html_output) >= 3
    /\ html_output[Len(html_output) - 2]
          = ParagraphLine(<<strip(lines[i - 3]), strip(lines[i - 2])>>)
    /\ paragraph_lines = <<>>

\* C18: a non-empty paragraph buffer and an open list never coexist, and
\* in_list is True exactly when list_type is not None.
C18_OneOpenBlock ==
    /\ paragraph_lines # <<>> => ~in_list
    /\ in_list <=> list_type # None

\* C18 witness: text is buffered after a list was closed.
C18_Witness ==
    /\ Scanned
    /\ paragraph_lines # <<>>
    /\ ListCloses >= 1
    /\ ~in_list
    /\ list_type = None

IsListTag(l) == l \in {<<"<ul>">>, <<"<ol>">>, <<"</ul>">>, <<"</ol>">>}

\* C19: every list closing tag of the output is of the kind of the most
\* recent list opening tag, no other list tag lying between them, and the
\* recorded kind of a list does not change while the list stays open.
C19_MatchingListTags ==
    /\ [](\A k \in DOMAIN html_output : \A kind \in {"ordered", "unordered"} :
            html_output[k] = ClosingLine(kind)
                => \E j \in 1..(k - 1) :
                      /\ html_output[j] = OpeningLine(kind)
                      /\ \A m \in (j + 1)..(k - 1) : ~IsListTag(html_output[m]))
    /\ [][(in_list /\ in_list') => list_type' = list_type]_vars

\* C19 witness: an <ol> and a <ul> have both been opened and closed, at a
\* blank line and at the end of the input.
C19_Witness ==
    /\ pc = "done"
    /\ \E j \in DOMAIN html_output : html_output[j] = <<"</ol>">>
    /\ Last(html_output) = <<"</ul>">>
    /\ \E k \in DOMAIN lines : strip(lines[k]) = <<>>

\* the lines of the input the parser takes as text: neither blank nor an
\* item (a '#' line is among them, the parser having no heading branch)
TextInputs == SelectSeq(lines, LAMBDA l : strip(l) # <<>> /\ MarkerKind(strip(l)) = None)

ItemInputs == SelectSeq(lines, LAMBDA l : MarkerKind(strip(l)) # None)

LiOutputs == SelectSeq(html_output, IsLiLine)

POutputs == SelectSeq(html_output, IsPLine)

\* C20: at return the <li> lines of the output are the input's item lines,
\* one each and in input order, each inside an open list; the contents of
\* the <p> elements, taken in order, are the stripped text lines of the
\* input, one each and in input order.
C20_NoContentLostOrDuplicated ==
    pc = "done" =>
        /\ LiOutputs = [k \in DOMAIN ItemInputs |-> ItemLine(strip(ItemInputs[k]))]
        /\ \A k \in DOMAIN html_output :
              IsLiLine(html_output[k]) => OpenDepth(html_output, k) = 1
        /\ join(<<" ">>, [k \in DOMAIN POutputs
                            |-> SubSeq(POutputs[k], 2, Len(POutputs[k]) - 1)])
              = join(<<" ">>, [k \in DOMAIN TextInputs |-> strip(TextInputs[k])])

\* C20 witness: the parser has returned on an input with two items in two
\* lists and text lines in two paragraphs.
C20_Witness ==
    /\ pc = "done"
    /\ Len(LiOutputs) = 2
    /\ Len(POutputs) = 2
    /\ ListOpens = 2

Exited == cli_pc = "exit"

C13_MissingInputNoOutput ==
    (Exited /\ input_kind # "regular") => (exit_code = 1 /\ ~output_opened)

\* C14: with an argument count other than two, main prints the usage string
\* and ends with exit code 1 without calling the conversion: no file is
\* read or written.
C14_UsageError ==
    /\ [][(cli_pc = "main" /\ argc # 3)
            => /\ cli_pc' = "exit"
               /\ exit_code' = 1
               /\ stdout' = Append(stdout, "usage") ]_vars
    /\ [](argc # 3 => /\ cli_pc \in {"main", "exit"}
                      /\ pc = "idle"
                      /\ ~input_opened
                      /\ ~output_opened
                      /\ md_content = <<>>)

\* C14 witness: a run with three arguments has ended with the usage string.
C14_Witness ==
    /\ Exited
    /\ argc = 4
    /\ exit_code = 1
    /\ stdout = <<"usage">>

\* C15 (as stated): in each failure case the diagnostic message is written
\* to the error stream, not to standard output.
C15_DiagnosticsOnStderr ==
    (Exited /\ exit_code = 1) => (stderr # <<>> /\ stdout = <<>>)

====
